---- MODULE Spec2Model ----
(***************************************************************************)
(* Model of the 7-way trailer tester firmware (src/firmware) and of the    *)
(* desktop simulator that drives it (src/simulator).                       *)
(*                                                                         *)
(* Times are integers in milliseconds.  The firmware never uses the        *)
(* absolute value of time.monotonic(): check_buttons only compares the     *)
(* differences current_time - _test_press_start and                         *)
(* current_time - _mode_press_time with constants.  The model therefore    *)
(* carries these two differences (hold_time, since_mode_press) instead of  *)
(* the clock and the two time stamps; every sleep adds its duration to     *)
(* both, and both saturate at a cap above the constants they are compared  *)
(* with.                                                                   *)
(*                                                                         *)
(* TestMode (test_modes.py:16-24) is a plain class of int constants, not   *)
(* an enum: list(TestMode) raises TypeError and <int>.name raises          *)
(* AttributeError.  _cycle_mode, _trigger_test, set_mode_indicator and     *)
(* run are modelled with these exceptions, as the code executes.           *)
(***************************************************************************)
EXTENDS Integers, Sequences, FiniteSets, TLC

(* ---------------- program constants ---------------- *)

DEBOUNCE_MS == 50
LONG_PRESS_MS == 2000

VEHICLE_TESTER == 0
TRAILER_TESTER == 1
PASS_THROUGH == 2

\* TestMode.all_modes()
all_modes == <<VEHICLE_TESTER, TRAILER_TESTER, PASS_THROUGH>>

\* len(RelayManager.RELAY_PINS)
NumRelays == 6
RelayIdx == 0 .. (NumRelays - 1)

\* RelayManager.CHANNEL_NAMES, position i+1 names relay i
CHANNEL_NAMES == <<"brake", "tail", "left", "right", "aux", "reverse">>

\* TrailerTester.CHANNELS[name]["relay_idx"]
relay_idx(name) ==
    CASE name = "brake" -> 0
      [] name = "tail" -> 1
      [] name = "left" -> 2
      [] name = "right" -> 3
      [] name = "aux" -> 4
      [] name = "reverse" -> 5

\* TestSequence.FULL_TEST, durations in ms
FULL_TEST ==
    << << "tail", 2000 >>, << "left", 1500 >>, << "right", 1500 >>,
       << "brake", 2000 >>, << "reverse", 1500 >>, << "aux", 1000 >> >>

\* a sequence that tests the right turn signal before the left one
test_sequence_RightFirst ==
    << [channel |-> "tail",    display_name |-> "Tail Lights", duration |-> 2000],
       [channel |-> "right",   display_name |-> "Right Turn",  duration |-> 1500],
       [channel |-> "left",    display_name |-> "Left Turn",   duration |-> 1500],
       [channel |-> "brake",   display_name |-> "Brakes",      duration |-> 2000],
       [channel |-> "reverse", display_name |-> "Reverse",     duration |-> 1500],
       [channel |-> "aux",     display_name |-> "Aux Power",   duration |-> 1000] >>

\* the literal list of _run_trailer_test_sequence, durations in ms
test_sequence ==
    << [channel |-> "tail",    display_name |-> "Tail Lights", duration |-> 2000],
       [channel |-> "left",    display_name |-> "Left Turn",   duration |-> 1500],
       [channel |-> "right",   display_name |-> "Right Turn",  duration |-> 1500],
       [channel |-> "brake",   display_name |-> "Brakes",      duration |-> 2000],
       [channel |-> "reverse", display_name |-> "Reverse",     duration |-> 1500],
       [channel |-> "aux",     display_name |-> "Aux Power",   duration |-> 1000] >>

\* time.sleep(0.3) after each step of the sequence
SETTLE_MS == 300

\* time.sleep(0.05) of run_firmware_loop
SIM_LOOP_SLEEP_MS == 50

\* blink_all(count=3, 0.1, 0.1) + show_message + time.sleep(1.0)
FULL_TEST_INTRO_MS == 1600

\* time.sleep(0.5) + time.sleep(1.0) before the detailed read (vehicle mode)
FULL_TEST_READ_DELAY_MS == 1500

\* blink_all(count=2, 0.15, 0.15) at the end of _trigger_full_test
FULL_TEST_OUTRO_MS == 600

\* reading_interval = 0.25 of run(), in ms
READING_INTERVAL_MS == 250

\* the sleeps of the constructor: startup_animation 8*0.05+0.2, then 1.5
StartTime == 2100

(* ---------------- bounds of the model ---------------- *)

\* cap of hold_time (must exceed LONG_PRESS_MS)
MaxHold == 2500
\* cap of since_mode_press (must exceed DEBOUNCE_MS)
MaxSince == 100
\* time.sleep may return late: longest extra delay of one loop sleep
MaxOvershoot == 950
\* cap of the event counters
MaxEvents == 2
\* cap of since_read (must exceed READING_INTERVAL_MS)
MaxReadAge == 300

(* ---------------- state ---------------- *)

VARIABLES
    current_mode,          \* TrailerTester.current_mode
    running,               \* TrailerTester.running
    relays,                \* RelayManager.relays[i].value (the output pins)
    states,                \* RelayManager.states[i]
    mode_button_last,      \* TrailerTester.mode_button_last
    test_button_last,      \* TrailerTester.test_button_last
    since_mode_press,      \* time.monotonic()*1000 - _mode_press_time
    hold_time,             \* time.monotonic()*1000 - _test_press_start
    long_press_triggered,  \* TrailerTester._long_press_triggered
    header,                \* DisplayManager.header_label.text
    status,                \* DisplayManager.status_label.text
    voltages,              \* TRUE iff the voltage labels show readings
    pixels,                \* "off" iff every NeoPixel is (0,0,0)
    driver,                \* who runs the firmware: "none", "run" or "sim"
    pc,                    \* position of the firmware thread
    step,                  \* index into test_sequence of the running step
    exc,                   \* exception raised in the firmware thread
    stop_event,            \* threading.Event of the simulator
    ui,                    \* position of the simulator's main (UI) thread
    shutdown_ran,          \* observation: shutdown() has executed all_off()
    mode_events,           \* observation: calls of _cycle_mode
    mode_advances,         \* observation: changes of current_mode
    long_events,           \* observation: calls of _trigger_full_test in this hold
    short_events,          \* observation: calls of _trigger_test in this hold
    held_late,             \* observation: a held sample later than LONG_PRESS_MS
    release_kind,          \* observation: length class of the hold just ended
    last_call,             \* observation: last operation called directly
    last_arg,              \* observation: the index or name it was called with
    detail_reads,          \* observation: _read_all_channels(detailed=True) in this hold
    seq_runs,              \* observation: _run_trailer_test_sequence calls in this hold
    seq_log,               \* observation: <<relay, hold ms, settle ms>> of each step run
    since_read,            \* time since the previous periodic _read_all_channels
    read_gap,              \* observation: since_read at the last periodic read, -1 if none
    readings,              \* the dict given to DiagnosticsEngine.analyze_readings
    faults,                \* the list analyze_readings returned
    analysis,              \* the dict VehicleTester.analyze_readings returned
    history,               \* DiagnosticHistory.history
    fault_counts,          \* DiagnosticHistory.fault_counts
    max_history,           \* DiagnosticHistory.max_history
    added,                 \* observation: every entry given to add_reading
    answer,                \* what the queries of the history returned
    commanded,             \* observation: the value last commanded for each relay
    since_accept,          \* observation: time since the last accepted mode press
    active_by              \* the active/inactive decision of each component

vars == << current_mode, running, relays, states, mode_button_last,
           test_button_last, since_mode_press, hold_time,
           long_press_triggered, header, status, voltages, pixels, driver,
           pc, step, exc, stop_event, ui, shutdown_ran, mode_events,
           mode_advances, long_events, short_events, held_late,
           release_kind, last_call, last_arg, detail_reads, seq_runs, seq_log,
           since_read, read_gap, readings, faults, analysis, history,
           fault_counts, max_history, added, answer, commanded,
           since_accept, active_by >>

relayVars == << relays, states, commanded >>
buttonVars == << mode_button_last, test_button_last, since_mode_press,
                 hold_time, long_press_triggered, since_accept >>
displayVars == << header, status, voltages, pixels >>
simVars == << stop_event, ui, shutdown_ran >>
eventVars == << mode_events, mode_advances, long_events, short_events,
                held_late, release_kind >>

traceVars == << detail_reads, seq_runs, seq_log >>
callVars == << last_call, last_arg >>

\* the argument recorded for a call that takes neither an index nor a name
NoArg == [idx |-> 0, name |-> ""]
readVars == << since_read, read_gap >>
histVars == << history, fault_counts, max_history, added, answer >>
diagVars == << readings, faults, analysis, active_by, histVars >>

Min(a, b) == IF a < b THEN a ELSE b

Bump(n) == Min(n + 1, MaxEvents)

AllOff == \A i \in RelayIdx : ~relays[i] /\ ~states[i]

Energized == {i \in RelayIdx : relays[i]}

(* ---------------- RelayManager ---------------- *)

\* RelayManager.set_channel on the pair (pins, tracked states)
set_channel(r, s, channel_idx, state) ==
    IF ~(0 <= channel_idx /\ channel_idx < NumRelays)
    THEN << r, s >>
    ELSE << [r EXCEPT ![channel_idx] = state],
            [s EXCEPT ![channel_idx] = state] >>

\* RelayManager.get_channel
get_channel(s, channel_idx) ==
    IF ~(0 <= channel_idx /\ channel_idx < NumRelays) THEN FALSE
    ELSE s[channel_idx]

\* RelayManager.toggle_channel: the pair after the call
toggle_channel(r, s, channel_idx) ==
    IF ~(0 <= channel_idx /\ channel_idx < NumRelays)
    THEN << r, s >>
    ELSE set_channel(r, s, channel_idx, ~s[channel_idx])

\* a set_pattern that drives the pins and forgets the tracked states
set_pattern_PinsOnly(r, s, pattern) ==
    << [i \in RelayIdx |-> IF i + 1 <= Len(pattern) THEN pattern[i + 1]
                           ELSE r[i]],
       s >>

\* RelayManager.set_pattern: element idx of the pattern goes to relay idx,
\* elements beyond the last relay are skipped, relays beyond the pattern
\* are left alone
set_pattern(r, s, pattern) ==
    << [i \in RelayIdx |-> IF i + 1 <= Len(pattern) THEN pattern[i + 1]
                           ELSE r[i]],
       [i \in RelayIdx |-> IF i + 1 <= Len(pattern) THEN pattern[i + 1]
                           ELSE s[i]] >>

\* the names tried with set_by_name: the six channel names, two of them
\* again in other letter cases, and three names of no channel
GivenNames ==
    {CHANNEL_NAMES[k] : k \in 1 .. NumRelays}
        \cup {"BRAKE", "Tail", "ground", "relay0", ""}

\* str.lower() on the names tried
lower(name) ==
    IF name = "BRAKE" THEN "brake"
    ELSE IF name = "Tail" THEN "tail"
    ELSE name

\* the result standing for the ValueError of CHANNEL_NAMES.index(name)
NotInList == -1

\* CHANNEL_NAMES.index(name): the relay index, or NotInList where it raises
index(name) ==
    IF \E k \in 1 .. NumRelays : CHANNEL_NAMES[k] = name
    THEN (CHOOSE k \in 1 .. NumRelays : CHANNEL_NAMES[k] = name) - 1
    ELSE NotInList

\* a set_by_name that falls back to relay 0 for a name it does not know
set_by_name_Default0(r, s, channel_name, state) ==
    IF index(lower(channel_name)) = NotInList
    THEN set_channel(r, s, 0, state)
    ELSE set_channel(r, s, index(lower(channel_name)), state)

\* RelayManager.set_by_name: the ValueError of index() is caught and logged
set_by_name(r, s, channel_name, state) ==
    IF index(lower(channel_name)) = NotInList
    THEN << r, s >>
    ELSE set_channel(r, s, index(lower(channel_name)), state)

\* RelayManager.get_active_channels: the names of the relays whose tracked
\* state is on, in index order
get_active_channels(s) ==
    SelectSeq(CHANNEL_NAMES, LAMBDA name : s[index(name)])

\* RelayManager.all_off
all_off(r, s) ==
    << [i \in RelayIdx |-> FALSE], [i \in RelayIdx |-> FALSE] >>

\* RelayManager.all_on
all_on(r, s) ==
    << [i \in RelayIdx |-> TRUE], [i \in RelayIdx |-> TRUE] >>

(* ---------------- time ---------------- *)

\* a sleep of dt ms as seen by the two time differences of check_buttons
Elapse(dt) ==
    /\ hold_time' = Min(hold_time + dt, MaxHold)
    /\ since_mode_press' = Min(since_mode_press + dt, MaxSince)
    /\ since_accept' = Min(since_accept + dt, MaxSince)

\* the same sleep as seen by the interval test of the periodic read
ReadAge(dt) ==
    /\ since_read' = Min(since_read + dt, MaxReadAge)
    /\ UNCHANGED read_gap

(* ---------------- a new DiagnosticHistory ---------------- *)

\* the fault names counted in this model's histories
HistKinds == {"VOLTAGE_DROP", "WEAK_SIGNAL"}

\* the max_history the history is constructed with (default 100)
HistCapacity == 10

\* the number of add_reading calls tried: one eviction
MaxAdds == HistCapacity + 1

\* no query made since the last add_reading
NoAnswer == [asked |-> FALSE, intermittent |-> << >>, trend |-> << >>]

\* DiagnosticHistory.__init__
EmptyHistory ==
    /\ history = << >>
    /\ fault_counts = [kind \in HistKinds |-> 0]
    /\ max_history = HistCapacity
    /\ added = << >>
    /\ answer = NoAnswer

(* ---------------- construction ---------------- *)

\* TrailerTester.__init__, RelayManager.__init__, show_splash, startup_animation
Constructed ==
    /\ current_mode = VEHICLE_TESTER
    /\ running = TRUE
    /\ relays = [i \in RelayIdx |-> FALSE]
    /\ states = [i \in RelayIdx |-> FALSE]
    /\ mode_button_last = TRUE
    /\ test_button_last = TRUE
    /\ since_mode_press = Min(StartTime, MaxSince)
    /\ hold_time = Min(StartTime, MaxHold)
    /\ long_press_triggered = FALSE
    /\ header = "7-WAY TESTER"
    /\ status = "v1.0 - Starting..."
    /\ voltages = FALSE
    /\ pixels = "lit"
    /\ driver = "none"
    /\ pc = "constructed"
    /\ step = 0
    /\ exc = "none"
    /\ stop_event = FALSE
    /\ ui = "ui"
    /\ shutdown_ran = FALSE
    /\ mode_events = 0
    /\ mode_advances = 0
    /\ long_events = 0
    /\ short_events = 0
    /\ held_late = FALSE
    /\ release_kind = "none"
    /\ last_call = "none"
    /\ last_arg = NoArg
    /\ detail_reads = 0
    /\ seq_runs = 0
    /\ seq_log = << >>
    /\ since_read = Min(StartTime, MaxReadAge)
    /\ read_gap = -1
    /\ commanded = [i \in RelayIdx |-> FALSE]
    /\ since_accept = MaxSince

\* the application, and no snapshot analysed
Init ==
    /\ Constructed
    /\ readings = << >>
    /\ faults = << >>
    /\ analysis = << >>
    /\ active_by = << >>
    /\ EmptyHistory

(* ---------------- DisplayManager, NeoPixelManager ---------------- *)

\* DisplayManager.show_mode: the header text for a mode
mode_names(mode) ==
    CASE mode = VEHICLE_TESTER -> "MODE: VEHICLE TEST"
      [] mode = TRAILER_TESTER -> "MODE: TRAILER TEST"
      [] mode = PASS_THROUGH -> "MODE: PASS-THROUGH"
      [] OTHER -> "MODE: UNKNOWN"

\* DisplayManager.show_message: channel and voltage labels cleared, status set
show_message(message) ==
    /\ status' = message
    /\ voltages' = FALSE
    /\ UNCHANGED header

(* ---------------- TrailerTester: decisions of check_buttons ---------------- *)

\* line 116: the debounce test of the mode button
DebounceAccepts(since) == since > DEBOUNCE_MS

\* a long-press test that forgets the latch _long_press_triggered
IsLongPress_NoLatch(hold, triggered) == hold > LONG_PRESS_MS

\* line 132: the long-press test while the action button is held
IsLongPress(hold, triggered) == hold > LONG_PRESS_MS /\ ~triggered

\* a short-press test that compares with the wrong constant
IsShortPress_Debounce(hold, triggered) == hold < DEBOUNCE_MS /\ ~triggered

\* line 138: the short-press test when the action button is released
IsShortPress(hold, triggered) == hold < LONG_PRESS_MS /\ ~triggered

\* lines 125-135: which branch of the action-button code a sample takes
test_branch(test_current, last) ==
    IF ~test_current /\ last THEN "pressed"
    ELSE IF ~test_current /\ ~last THEN "held"
    ELSE IF test_current /\ ~last THEN "released"
    ELSE "idle"

\* _cycle_mode: list(TestMode) raises TypeError on its first line, TestMode
\* being a class and not iterable; the mode, the display, the LEDs and the
\* relays are as before, and all_off() on its last line is not reached
cycle_mode(mode, r, s) ==
    [raised |-> "TypeError", mode |-> mode, relays |-> r, states |-> s]

\* _trigger_test: the f-string of its first line reads current_mode.name of
\* an int and raises AttributeError before the mode is looked at
trigger_test(mode) ==
    [raised |-> "AttributeError", sequence |-> FALSE, read |-> FALSE]

\* NeoPixelManager.set_mode_indicator: pixel 0 is set, then the f-string of
\* its last line reads mode.name of an int and raises AttributeError
set_mode_indicator(mode) ==
    [raised |-> "AttributeError", pixels |-> "lit"]

\* observation: length class of a hold that ends with hold_time = hold
HoldClass(hold) ==
    IF hold < LONG_PRESS_MS THEN "short"
    ELSE IF hold = LONG_PRESS_MS THEN "threshold"
    ELSE "long"

(* ---------------- TrailerTester.check_buttons ---------------- *)

\* a loop that goes on polling the buttons while a step of the sequence sleeps
Polling_DuringHold(p) == p \in {"poll", "seq_hold"}

\* the loop calls check_buttons at the top of each iteration only: the
\* handlers it calls, the test sequence included, return before the next call
Polling(p) == p = "poll"

\* the firmware thread is stopped when the simulator's process has exited
Alive == ui # "exited"

\* check_buttons for one sample of the two buttons (TRUE = released).  It
\* returns, raises, or enters _trigger_full_test and goes on there.
check_buttons(mode_current, test_current) ==
    /\ Alive
    /\ Polling(pc)
    /\ UNCHANGED << current_mode, running, relayVars, displayVars, driver,
                    step, simVars, since_mode_press, callVars, seq_log,
                    readVars, diagVars >>
    /\ IF ~mode_current /\ mode_button_last /\ DebounceAccepts(since_mode_press)
       THEN \* line 117: _cycle_mode() raises, lines 119-121 are not reached
            /\ exc' = cycle_mode(current_mode, relays, states).raised
            /\ pc' = "raised"
            /\ mode_events' = Bump(mode_events)
            /\ since_accept' = 0
            /\ UNCHANGED << mode_button_last, test_button_last, hold_time,
                            long_press_triggered, mode_advances, long_events,
                            short_events, held_late, release_kind,
                            detail_reads, seq_runs >>
       ELSE /\ mode_button_last' = mode_current
            /\ UNCHANGED << mode_events, mode_advances, since_accept >>
            /\ LET branch == test_branch(test_current, test_button_last) IN
               CASE branch = "pressed" ->
                      /\ hold_time' = 0
                      /\ long_press_triggered' = FALSE
                      /\ test_button_last' = test_current
                      /\ long_events' = 0
                      /\ short_events' = 0
                      /\ detail_reads' = 0
                      /\ seq_runs' = 0
                      /\ held_late' = FALSE
                      /\ release_kind' = "none"
                      /\ pc' = "polled"
                      /\ UNCHANGED exc
                 [] branch = "held" ->
                      /\ held_late' = (held_late \/ hold_time > LONG_PRESS_MS)
                      /\ UNCHANGED << hold_time, short_events, release_kind,
                                      exc, detail_reads, seq_runs >>
                      /\ IF IsLongPress(hold_time, long_press_triggered)
                         THEN \* line 133: _trigger_full_test(), lines 134 and
                              \* 140 run when it returns
                              /\ long_events' = Bump(long_events)
                              /\ pc' = "full_test"
                              /\ UNCHANGED << long_press_triggered, test_button_last >>
                         ELSE /\ test_button_last' = test_current
                              /\ pc' = "polled"
                              /\ UNCHANGED << long_press_triggered, long_events >>
                 [] branch = "released" ->
                      /\ release_kind' = HoldClass(hold_time)
                      /\ UNCHANGED << hold_time, long_press_triggered,
                                      long_events, held_late >>
                      /\ IF IsShortPress(hold_time, long_press_triggered)
                         THEN \* line 139: _trigger_test() raises, line 140 is
                              \* not reached
                              /\ short_events' = Bump(short_events)
                              /\ exc' = trigger_test(current_mode).raised
                              /\ detail_reads' =
                                     IF trigger_test(current_mode).read
                                     THEN Bump(detail_reads) ELSE detail_reads
                              /\ seq_runs' =
                                     IF trigger_test(current_mode).sequence
                                     THEN Bump(seq_runs) ELSE seq_runs
                              /\ pc' = "raised"
                              /\ UNCHANGED test_button_last
                         ELSE /\ test_button_last' = test_current
                              /\ pc' = "polled"
                              /\ UNCHANGED << short_events, exc,
                                              detail_reads, seq_runs >>
                 [] OTHER ->
                      /\ test_button_last' = test_current
                      /\ pc' = "polled"
                      /\ UNCHANGED << hold_time, long_press_triggered, exc,
                                      long_events, short_events, held_late,
                                      release_kind, detail_reads, seq_runs >>

CheckButtons == \E m \in BOOLEAN, t \in BOOLEAN : check_buttons(m, t)

(* ---------------- TrailerTester._trigger_full_test ---------------- *)

\* line 210: relays.set_channel(channel["relay_idx"], True) of step k
seq_energize(r, s, k) ==
    set_channel(r, s, relay_idx(test_sequence[k].channel), TRUE)

\* a step that forgets to switch its relay off
seq_deenergize_Skipped(r, s, k) == << r, s >>

\* line 212: relays.set_channel(channel["relay_idx"], False) of step k
seq_deenergize(r, s, k) ==
    set_channel(r, s, relay_idx(test_sequence[k].channel), FALSE)

\* lines 168-173 and 191-192: blink, "FULL TEST", sleep, then the sequence
\* starts with its own message
FullTestBegin ==
    /\ Alive
    /\ pc = "full_test"
    /\ pixels' = "off"
    /\ show_message("Testing trailer...")
    /\ Elapse(FULL_TEST_INTRO_MS)
    /\ step' = 1
    /\ pc' = "seq_on"
    /\ UNCHANGED << current_mode, running, relayVars, mode_button_last,
                    test_button_last, long_press_triggered, driver, exc,
                    simVars, eventVars, callVars >>
    /\ seq_runs' = Bump(seq_runs)
    /\ seq_log' = << >>
    /\ ReadAge(FULL_TEST_INTRO_MS)
    /\ UNCHANGED << detail_reads, diagVars >>

\* lines 204-210 of step `step`: display, LED, energize.  The relay command
\* is a peripheral access and may raise; the pin is then unchanged.
SeqEnergize ==
    /\ Alive
    /\ pc = "seq_on"
    /\ status' = test_sequence[step].display_name
    /\ pixels' = "lit"
    /\ \E fails \in BOOLEAN :
         IF fails
         THEN /\ exc' = "RelayError"
              /\ pc' = "raised"
              /\ UNCHANGED << relayVars, seq_log >>
         ELSE /\ relays' = seq_energize(relays, states, step)[1]
              /\ states' = seq_energize(relays, states, step)[2]
              /\ commanded' = [commanded EXCEPT
                     ![relay_idx(test_sequence[step].channel)] = TRUE]
              /\ seq_log' = Append(seq_log,
                     << relay_idx(test_sequence[step].channel), 0, 0 >>)
              /\ pc' = "seq_hold"
              /\ UNCHANGED exc
    /\ UNCHANGED << current_mode, running, buttonVars, header, voltages,
                    driver, step, simVars, eventVars, callVars >>
    /\ UNCHANGED << detail_reads, seq_runs, readVars, diagVars >>

\* line 211: time.sleep(duration)
SeqHold ==
    /\ Alive
    /\ pc = "seq_hold"
    /\ Elapse(test_sequence[step].duration)
    /\ pc' = "seq_off"
    /\ UNCHANGED << current_mode, running, relayVars, mode_button_last,
                    test_button_last, long_press_triggered, displayVars,
                    driver, step, exc, simVars, eventVars, callVars >>
    /\ seq_log' = [seq_log EXCEPT ![Len(seq_log)] =
                       << @[1], test_sequence[step].duration, 0 >>]
    /\ ReadAge(test_sequence[step].duration)
    /\ UNCHANGED << detail_reads, seq_runs, diagVars >>

\* line 212: de-energize; the relay command may raise, the pin is then unchanged
SeqDeenergize ==
    /\ Alive
    /\ pc = "seq_off"
    /\ \E fails \in BOOLEAN :
         IF fails
         THEN /\ exc' = "RelayError"
              /\ pc' = "raised"
              /\ UNCHANGED relayVars
         ELSE /\ relays' = seq_deenergize(relays, states, step)[1]
              /\ states' = seq_deenergize(relays, states, step)[2]
              /\ commanded' = [commanded EXCEPT
                     ![relay_idx(test_sequence[step].channel)] = FALSE]
              /\ pc' = "seq_settle"
              /\ UNCHANGED exc
    /\ UNCHANGED << current_mode, running, buttonVars, displayVars, driver,
                    step, simVars, eventVars, callVars >>
    /\ UNCHANGED << traceVars, readVars, diagVars >>

\* lines 214-218: LED idle, settle sleep, next step or "Test complete!"
SeqSettle ==
    /\ Alive
    /\ pc = "seq_settle"
    /\ pixels' = "lit"
    /\ Elapse(SETTLE_MS)
    /\ IF step < Len(test_sequence)
       THEN /\ step' = step + 1
            /\ pc' = "seq_on"
            /\ UNCHANGED << header, status, voltages >>
       ELSE /\ step' = 0
            /\ pc' = "full_test_end"
            /\ show_message("Test complete!")
    /\ UNCHANGED << current_mode, running, relayVars, mode_button_last,
                    test_button_last, long_press_triggered, driver, exc,
                    simVars, eventVars, callVars >>
    /\ ReadAge(SETTLE_MS)
    /\ seq_log' = [seq_log EXCEPT ![Len(seq_log)] = << @[1], @[2], SETTLE_MS >>]
    /\ UNCHANGED << detail_reads, seq_runs, diagVars >>

\* a full test that reads the channels in every mode but trailer mode
full_test_reads_NotTrailer(mode) == mode # TRAILER_TESTER

\* line 179: the full test ends with a detailed read in vehicle mode only
full_test_reads(mode) == mode = VEHICLE_TESTER

\* a full test that leaves the tester in vehicle mode
mode_after_full_test_Reset(mode) == VEHICLE_TESTER

\* lines 166-187 and 189-246: _trigger_full_test, the sequence and the
\* channel read only read self.current_mode, none assigns it
mode_after_full_test(mode) == mode

\* lines 178-187: the detailed read in vehicle mode and the final blink; then
\* check_buttons goes on with its lines 134 and 140 (test_current is False)
FullTestEnd ==
    /\ Alive
    /\ pc = "full_test_end"
    /\ IF full_test_reads(current_mode)
       THEN /\ status' = "Reading inputs..."
            /\ voltages' = TRUE
            /\ detail_reads' = Bump(detail_reads)
            /\ Elapse(FULL_TEST_READ_DELAY_MS + FULL_TEST_OUTRO_MS)
            /\ ReadAge(FULL_TEST_READ_DELAY_MS + FULL_TEST_OUTRO_MS)
       ELSE /\ Elapse(FULL_TEST_OUTRO_MS)
            /\ ReadAge(FULL_TEST_OUTRO_MS)
            /\ UNCHANGED << status, voltages, detail_reads >>
    /\ pixels' = "off"
    /\ long_press_triggered' = TRUE
    /\ test_button_last' = FALSE
    /\ pc' = "polled"
    /\ current_mode' = mode_after_full_test(current_mode)
    /\ UNCHANGED << running, relayVars, mode_button_last,
                    header, driver, step, exc, simVars, eventVars, callVars >>
    /\ UNCHANGED << seq_runs, seq_log, diagVars >>

(* ---------------- the firmware's entry point ---------------- *)

\* TrailerTester.run: show_mode, then set_mode_indicator raises before the
\* try statement is entered; neither the loop nor shutdown() is executed
Run ==
    /\ pc = "constructed"
    /\ driver = "none"
    /\ driver' = "run"
    /\ header' = mode_names(current_mode)
    /\ status' = ""
    /\ voltages' = FALSE
    /\ pixels' = set_mode_indicator(current_mode).pixels
    /\ exc' = set_mode_indicator(current_mode).raised
    /\ pc' = "ended"
    /\ UNCHANGED << current_mode, running, relayVars, buttonVars, step,
                    simVars, eventVars, callVars >>
    /\ UNCHANGED << traceVars, readVars, diagVars >>

(* ---------------- the simulator: run_firmware_loop ---------------- *)

\* main, lines 229-235: the firmware loop is started in a thread
StartSim ==
    /\ pc = "constructed"
    /\ driver = "none"
    /\ driver' = "sim"
    /\ pc' = "loop"
    /\ UNCHANGED << current_mode, running, relayVars, buttonVars,
                    displayVars, step, exc, simVars, eventVars, callVars >>
    /\ UNCHANGED << traceVars, readVars, diagVars >>

\* line 186: while not stop_event.is_set()
LoopTest ==
    /\ Alive
    /\ pc = "loop"
    /\ pc' = IF stop_event THEN "ended" ELSE "poll"
    /\ UNCHANGED << current_mode, running, relayVars, buttonVars,
                    displayVars, driver, step, exc, simVars, eventVars,
                    callVars >>
    /\ UNCHANGED << traceVars, readVars, diagVars >>

\* line 191: run_firmware_loop reads the channels in these modes, in every
\* iteration (it has no interval test)
sim_reads(mode) == mode \in {VEHICLE_TESTER, PASS_THROUGH}

\* lines 189-194: the read in vehicle and pass-through mode, then the sleep,
\* which lasts 50 ms or longer
LoopBody ==
    /\ Alive
    /\ pc = "polled"
    /\ driver = "sim"
    /\ \E late \in {0, MaxOvershoot} :
         /\ Elapse(SIM_LOOP_SLEEP_MS + late)
         /\ IF sim_reads(current_mode)
            THEN /\ voltages' = TRUE
                 /\ pixels' = "lit"
                 /\ read_gap' = since_read
                 /\ since_read' = Min(SIM_LOOP_SLEEP_MS + late, MaxReadAge)
            ELSE /\ ReadAge(SIM_LOOP_SLEEP_MS + late)
                 /\ UNCHANGED << voltages, pixels >>
    /\ pc' = "loop"
    /\ UNCHANGED << current_mode, running, relayVars, mode_button_last,
                    test_button_last, long_press_triggered, header, status,
                    driver, step, exc, simVars, eventVars, callVars >>
    /\ UNCHANGED << traceVars, diagVars >>

\* lines 195-196: except Exception: print; the thread's function returns
LoopExcept ==
    /\ Alive
    /\ pc = "raised"
    /\ driver = "sim"
    /\ pc' = "ended"
    /\ UNCHANGED << current_mode, running, relayVars, buttonVars,
                    displayVars, driver, step, exc, simVars, eventVars,
                    callVars >>
    /\ UNCHANGED << traceVars, readVars, diagVars >>

(* ---------------- the simulator: main thread ---------------- *)

InFullTest ==
    pc \in {"full_test", "seq_on", "seq_hold", "seq_off", "seq_settle",
            "full_test_end"}

\* lines 249-265: 'q' or Ctrl-C ends the UI loop, stop_event is set
Quit ==
    /\ driver = "sim"
    /\ ui = "ui"
    /\ stop_event' = TRUE
    /\ ui' = "join"
    /\ UNCHANGED << current_mode, running, relayVars, buttonVars,
                    displayVars, driver, pc, step, exc, shutdown_ran,
                    eventVars, callVars >>
    /\ UNCHANGED << traceVars, readVars, diagVars >>

\* lines 266-267 and shutdown, lines 280-283: join returns when the thread
\* has ended, or after 1.0 s with the thread still inside a full test; then
\* all_off(), neopixels.clear(), "Goodbye!"
JoinThenShutdown ==
    /\ ui = "join"
    /\ pc = "ended" \/ InFullTest
    /\ relays' = all_off(relays, states)[1]
    /\ states' = all_off(relays, states)[2]
    /\ commanded' = [i \in RelayIdx |-> FALSE]
    /\ pixels' = "off"
    /\ show_message("Goodbye!")
    /\ shutdown_ran' = TRUE
    /\ ui' = "shutdown"
    /\ UNCHANGED << current_mode, running, buttonVars, driver, pc, step, exc,
                    stop_event, eventVars, callVars >>
    /\ UNCHANGED << traceVars, readVars, diagVars >>

\* shutdown, lines 284-285, and main's return: display.clear(), the process
\* exits and the daemon thread with it
ShutdownEnd ==
    /\ ui = "shutdown"
    /\ header' = ""
    /\ status' = ""
    /\ voltages' = FALSE
    /\ ui' = "exited"
    /\ UNCHANGED << current_mode, running, relayVars, buttonVars, pixels,
                    driver, pc, step, exc, stop_event, shutdown_ran,
                    eventVars, callVars >>
    /\ UNCHANGED << traceVars, readVars, diagVars >>

(* ---------------- the application ---------------- *)

Next ==
    \/ Run
    \/ StartSim
    \/ LoopTest
    \/ CheckButtons
    \/ FullTestBegin
    \/ SeqEnergize
    \/ SeqHold
    \/ SeqDeenergize
    \/ SeqSettle
    \/ FullTestEnd
    \/ LoopBody
    \/ LoopExcept
    \/ Quit
    \/ JoinThenShutdown
    \/ ShutdownEnd

Spec == Init /\ [][Next]_vars

(* ---------------- the application in each mode ---------------- *)

\* app.current_mode = mode, assigned on the constructed object before the
\* firmware loop is started (no handler of the firmware reaches the modes
\* other than VEHICLE_TESTER, _cycle_mode raising as it does)
SetMode ==
    /\ pc = "constructed"
    /\ driver = "none"
    /\ \E mode \in {TRAILER_TESTER, PASS_THROUGH} : current_mode' = mode
    /\ current_mode = VEHICLE_TESTER
    /\ UNCHANGED << running, relayVars, buttonVars, displayVars, driver, pc,
                    step, exc, simVars, eventVars, callVars, traceVars,
                    readVars, diagVars >>

NextModes ==
    \/ SetMode
    \/ Next

SpecModes == Init /\ [][NextModes]_vars

(* ---------------- the firmware thread keeps running ---------------- *)

\* the steps of _trigger_full_test: each is a call or a time.sleep that
\* returns
FullTestStep ==
    \/ FullTestBegin
    \/ SeqEnergize
    \/ SeqHold
    \/ SeqDeenergize
    \/ SeqSettle
    \/ FullTestEnd

\* the application with a firmware thread that is scheduled as long as the
\* process lives
SpecLive == Init /\ [][NextModes]_vars /\ WF_vars(FullTestStep)

(* ---------------- operations called directly ---------------- *)

\* relays.set_channel(channel_idx, state) called on the constructed object
Call_set_channel ==
    \E channel_idx \in -1 .. NumRelays, state \in BOOLEAN :
      /\ relays' = set_channel(relays, states, channel_idx, state)[1]
      /\ states' = set_channel(relays, states, channel_idx, state)[2]
      /\ commanded' = IF channel_idx \in RelayIdx
                      THEN [commanded EXCEPT ![channel_idx] = state]
                      ELSE commanded
      /\ last_call' = "set_channel"
      /\ last_arg' = [idx |-> channel_idx, name |-> ""]
      /\ UNCHANGED << current_mode, running, buttonVars, displayVars, driver,
                      pc, step, exc, simVars, eventVars >>
      /\ UNCHANGED << traceVars, readVars, diagVars >>

\* relays.all_off()
Call_all_off ==
    /\ relays' = all_off(relays, states)[1]
    /\ states' = all_off(relays, states)[2]
    /\ commanded' = [i \in RelayIdx |-> FALSE]
    /\ last_call' = "all_off"
    /\ last_arg' = NoArg
    /\ UNCHANGED << current_mode, running, buttonVars, displayVars, driver,
                    pc, step, exc, simVars, eventVars >>
    /\ UNCHANGED << traceVars, readVars, diagVars >>

\* relays.all_on()
Call_all_on ==
    /\ relays' = all_on(relays, states)[1]
    /\ states' = all_on(relays, states)[2]
    /\ commanded' = [i \in RelayIdx |-> TRUE]
    /\ last_call' = "all_on"
    /\ last_arg' = NoArg
    /\ UNCHANGED << current_mode, running, buttonVars, displayVars, driver,
                    pc, step, exc, simVars, eventVars >>
    /\ UNCHANGED << traceVars, readVars, diagVars >>

\* relays.toggle_channel(channel_idx)
Call_toggle_channel ==
    \E channel_idx \in -1 .. NumRelays :
      /\ relays' = toggle_channel(relays, states, channel_idx)[1]
      /\ states' = toggle_channel(relays, states, channel_idx)[2]
      /\ commanded' = IF channel_idx \in RelayIdx
                      THEN [commanded EXCEPT ![channel_idx] = ~@]
                      ELSE commanded
      /\ last_call' = "toggle_channel"
      /\ last_arg' = [idx |-> channel_idx, name |-> ""]
      /\ UNCHANGED << current_mode, running, buttonVars, displayVars, driver,
                      pc, step, exc, simVars, eventVars >>
      /\ UNCHANGED << traceVars, readVars, diagVars >>

\* relays.set_by_name(channel_name, state)
Call_set_by_name ==
    \E channel_name \in GivenNames, state \in BOOLEAN :
      /\ relays' = set_by_name(relays, states, channel_name, state)[1]
      /\ states' = set_by_name(relays, states, channel_name, state)[2]
      /\ commanded' =
            [i \in RelayIdx |->
                 IF CHANNEL_NAMES[i + 1] = lower(channel_name)
                 THEN state ELSE commanded[i]]
      /\ last_call' = "set_by_name"
      /\ last_arg' = [idx |-> 0, name |-> channel_name]
      /\ UNCHANGED << current_mode, running, buttonVars, displayVars, driver,
                      pc, step, exc, simVars, eventVars >>
      /\ UNCHANGED << traceVars, readVars, diagVars >>

\* the patterns tried: every list of booleans of up to one element more
\* than there are relays
Patterns ==
    UNION {[1 .. n -> BOOLEAN] : n \in 0 .. (NumRelays + 1)}

\* relays.set_pattern(pattern)
Call_set_pattern ==
    \E pattern \in Patterns :
      /\ relays' = set_pattern(relays, states, pattern)[1]
      /\ states' = set_pattern(relays, states, pattern)[2]
      /\ commanded' =
            [i \in RelayIdx |->
                 IF i < Len(pattern) THEN pattern[i + 1] ELSE commanded[i]]
      /\ last_call' = "set_pattern"
      /\ last_arg' = NoArg
      /\ UNCHANGED << current_mode, running, buttonVars, displayVars, driver,
                      pc, step, exc, simVars, eventVars >>
      /\ UNCHANGED << traceVars, readVars, diagVars >>

\* _cycle_mode(), the handler of an accepted mode-button press
Call_cycle_mode ==
    LET res == cycle_mode(current_mode, relays, states) IN
      /\ current_mode' = res.mode
      /\ relays' = res.relays
      /\ states' = res.states
      /\ UNCHANGED commanded
      /\ exc' = res.raised
      /\ mode_events' = Bump(mode_events)
      /\ mode_advances' = IF res.mode # current_mode
                          THEN Bump(mode_advances) ELSE mode_advances
      /\ last_call' = "_cycle_mode"
      /\ last_arg' = NoArg
      /\ UNCHANGED << running, buttonVars, displayVars, driver, pc, step,
                      simVars, long_events, short_events, held_late,
                      release_kind >>
      /\ UNCHANGED << traceVars, readVars, diagVars >>

NextUnit ==
    \/ Call_set_channel
    \/ Call_all_off
    \/ Call_all_on
    \/ Call_toggle_channel
    \/ Call_set_by_name
    \/ Call_set_pattern
    \/ Call_cycle_mode

SpecUnit == Init /\ [][NextUnit]_vars

(* ---------------- DiagnosticsEngine ---------------- *)

\* Voltages are integers in half volts: every threshold of the engine is a
\* multiple of 0.5 V, and sums and comparisons of such floats are exact.
\* A snapshot (the dict readings) is the sequence of its items in iteration
\* order, each item a pair << channel, voltage >>, the channels distinct.

\* ACTIVE_THRESHOLD = 3.0
ACTIVE_THRESHOLD == 6
\* WEAK_THRESHOLD = 9.0
WEAK_THRESHOLD == 18
\* NORMAL_MIN = 11.0
NORMAL_MIN == 22
\* abs(left_voltage - right_voltage) < 1.0
CROSS_WIRE_DIFF == 2
\* len(active_channels) >= 3
GROUND_MIN_ACTIVE == 3

\* FaultPattern: name and confidence as the _diagnose_ and _detect_ methods
\* set them, and the channel the finding is about ("" for a heuristic)
FaultPattern(name, confidence, channel) ==
    [name |-> name, confidence |-> confidence, channel |-> channel]

\* _is_voltage_drop
is_voltage_drop(voltage) ==
    ACTIVE_THRESHOLD < voltage /\ voltage < WEAK_THRESHOLD

\* a weak-signal test that leaves the boundary 9.0 out
is_weak_signal_Strict(voltage) ==
    WEAK_THRESHOLD < voltage /\ voltage < NORMAL_MIN

\* _is_weak_signal
is_weak_signal(voltage) ==
    WEAK_THRESHOLD <= voltage /\ voltage < NORMAL_MIN

\* voltage > self.ACTIVE_THRESHOLD, lines 72, 183 and 202
is_active(voltage) == voltage > ACTIVE_THRESHOLD

\* readings.get(key, default)
dict_get(items, key, default) ==
    IF \E k \in 1 .. Len(items) : items[k][1] = key
    THEN items[CHOOSE k \in 1 .. Len(items) : items[k][1] = key][2]
    ELSE default

abs(x) == IF x < 0 THEN -x ELSE x

RECURSIVE sum(_)
\* sum(active_channels)
sum(values) ==
    IF values = << >> THEN 0 ELSE Head(values) + sum(Tail(values))

\* a classification that has no active floor: whatever is below 9.0 V is a drop
channel_fault_NoFloor(channel, voltage) ==
    IF voltage < WEAK_THRESHOLD
    THEN << FaultPattern("VOLTAGE_DROP", 85, channel) >>
    ELSE IF is_weak_signal(voltage)
         THEN << FaultPattern("WEAK_SIGNAL", 70, channel) >>
         ELSE << >>

\* lines 72-79: the finding of one channel, as a list of at most one fault
channel_fault(channel, voltage) ==
    IF is_active(voltage)
    THEN IF is_voltage_drop(voltage)
         THEN << FaultPattern("VOLTAGE_DROP", 85, channel) >>
         ELSE IF is_weak_signal(voltage)
              THEN << FaultPattern("WEAK_SIGNAL", 70, channel) >>
              ELSE << >>
    ELSE << >>

RECURSIVE channel_faults(_)
\* the loop of analyze_readings, lines 70-79
channel_faults(items) ==
    IF items = << >> THEN << >>
    ELSE channel_fault(Head(items)[1], Head(items)[2])
           \o channel_faults(Tail(items))

\* a cross-wiring test that takes a difference of exactly 1.0 V for similar
similar_voltages_Inclusive(left_voltage, right_voltage) ==
    abs(left_voltage - right_voltage) <= CROSS_WIRE_DIFF

\* line 184: abs(left_voltage - right_voltage) < 1.0
similar_voltages(left_voltage, right_voltage) ==
    abs(left_voltage - right_voltage) < CROSS_WIRE_DIFF

\* _detect_cross_wiring: the list of its finding, empty for None
detect_cross_wiring(items) ==
    LET left_voltage == dict_get(items, "left", 0)
        right_voltage == dict_get(items, "right", 0)
    IN IF /\ is_active(left_voltage)
          /\ is_active(right_voltage)
          /\ similar_voltages(left_voltage, right_voltage)
       THEN << FaultPattern("POSSIBLE_CROSS_WIRE", 60, "") >>
       ELSE << >>

\* a ground test that takes every channel of the snapshot into the mean
ground_values_All(items) ==
    [k \in 1 .. Len(items) |-> items[k][2]]

\* line 202: the voltages of the active channels
ground_values(items) ==
    LET values == [k \in 1 .. Len(items) |-> items[k][2]]
    IN SelectSeq(values, is_active)

\* _detect_ground_fault: the list of its finding, empty for None.  The test
\* sum/len < NORMAL_MIN is made on the sum, which is the same on this grid.
detect_ground_fault(items) ==
    LET active_channels == ground_values(items)
    IN IF /\ Len(active_channels) >= GROUND_MIN_ACTIVE
          /\ sum(active_channels) < NORMAL_MIN * Len(active_channels)
       THEN << FaultPattern("GROUND_FAULT", 90, "") >>
       ELSE << >>

RECURSIVE sort_by_confidence_Unstable(_)
\* a sort that is not stable: of the faults of highest confidence it takes
\* the last one first
sort_by_confidence_Unstable(fs) ==
    IF fs = << >> THEN << >>
    ELSE LET top == CHOOSE k \in 1 .. Len(fs) :
                      /\ \A j \in 1 .. Len(fs) :
                            fs[j].confidence <= fs[k].confidence
                      /\ \A j \in (k + 1) .. Len(fs) :
                            fs[j].confidence < fs[k].confidence
             others == [j \in 1 .. (Len(fs) - 1) |->
                          IF j < top THEN fs[j] ELSE fs[j + 1]]
         IN << fs[top] >> \o sort_by_confidence_Unstable(others)

RECURSIVE sort_by_confidence(_)
\* faults.sort(key=lambda f: f.confidence, reverse=True): a stable sort,
\* done here by taking out the first fault of highest confidence
sort_by_confidence(fs) ==
    IF fs = << >> THEN << >>
    ELSE LET top == CHOOSE k \in 1 .. Len(fs) :
                      /\ \A j \in 1 .. Len(fs) :
                            fs[j].confidence <= fs[k].confidence
                      /\ \A j \in 1 .. (k - 1) :
                            fs[j].confidence < fs[k].confidence
             others == [j \in 1 .. (Len(fs) - 1) |->
                          IF j < top THEN fs[j] ELSE fs[j + 1]]
         IN << fs[top] >> \o sort_by_confidence(others)

\* _is_open_circuit: voltage < 0.5; it has no caller
is_open_circuit(voltage) == voltage < 1

\* the finding of _diagnose_open_circuit; it has no caller
open_circuit(channel) == FaultPattern("OPEN_CIRCUIT", 95, channel)

\* an analysis that also reports every channel reading below 0.5 V as an
\* open circuit
analyze_readings_WithOpenCircuit(items) ==
    LET dead == SelectSeq(items, LAMBDA item : is_open_circuit(item[2]))
    IN sort_by_confidence(
           [k \in 1 .. Len(dead) |-> open_circuit(dead[k][1])]
               \o channel_faults(items) \o detect_cross_wiring(items)
               \o detect_ground_fault(items))

\* DiagnosticsEngine.analyze_readings
analyze_readings(items) ==
    sort_by_confidence(channel_faults(items) \o detect_cross_wiring(items)
                       \o detect_ground_fault(items))

(* ---------------- analyze_readings on bounded snapshots ---------------- *)

\* number of channels of a snapshot
MaxDiagChannels == 4

\* the voltages tried: 0, 3.0, 3.5, 4.5, 8.5, 9.0, 10.5, 11.0, 12.0 V
DiagVolts == {0, 6, 7, 9, 17, 18, 21, 22, 24}

\* the iteration orders tried: that of TrailerTester.CHANNELS and another
DiagOrders ==
    { << "brake", "tail", "left", "right", "aux", "reverse" >>,
      << "right", "left", "tail", "brake", "reverse", "aux" >> }

\* the items of a dict that holds, of the channels of order, those that
\* volts maps to a voltage (-1 stands for a channel the dict lacks)
dict_items(order, volts) ==
    LET all == [k \in 1 .. Len(volts) |-> << order[k], volts[k] >>]
        present(item) == item[2] # -1
    IN SelectSeq(all, present)

\* the engine and a snapshot to be analysed
InitDiag ==
    /\ Constructed
    /\ \E order \in DiagOrders :
         \E volts \in [1 .. MaxDiagChannels -> DiagVolts \cup {-1}] :
           readings = dict_items(order, volts)
    /\ faults = << >>
    /\ analysis = << >>
    /\ active_by = << >>
    /\ EmptyHistory

\* faults = engine.analyze_readings(readings)
Analyze ==
    /\ last_call = "none"
    /\ faults' = analyze_readings(readings)
    /\ last_call' = "analyze_readings"
    /\ last_arg' = NoArg
    /\ UNCHANGED << current_mode, running, relayVars, buttonVars, displayVars,
                    driver, pc, step, exc, simVars, eventVars, traceVars,
                    readVars, readings, analysis, active_by, histVars >>

NextDiag == Analyze

SpecDiag == InitDiag /\ [][NextDiag]_vars

(* ---------------- VehicleTester ---------------- *)

\* test_modes.py line 125: if voltage < 0.5, in half volts
OFF_BELOW == 1

\* VehicleTester.THRESHOLD_LOW = 3.0
THRESHOLD_LOW == 6

\* VehicleTester.THRESHOLD_HIGH = 10.0
THRESHOLD_HIGH == 20

\* VehicleTester.THRESHOLD_FAULT = 16.0
THRESHOLD_FAULT == 32

\* the tuple (status_string, is_active, is_fault)
Interpretation(status_string, active, fault) ==
    [status |-> status_string, is_active |-> active, is_fault |-> fault]

\* an interpretation for which exactly 3.0 V is still LOW and exactly
\* 16.0 V still OK
interpret_voltage_Strict(voltage) ==
    IF voltage < OFF_BELOW THEN Interpretation("OFF", FALSE, FALSE)
    ELSE IF voltage <= THRESHOLD_LOW THEN Interpretation("LOW", FALSE, FALSE)
    ELSE IF voltage < THRESHOLD_HIGH THEN Interpretation("WEAK", TRUE, FALSE)
    ELSE IF voltage <= THRESHOLD_FAULT THEN Interpretation("OK", TRUE, FALSE)
    ELSE Interpretation("HIGH!", TRUE, TRUE)

\* VehicleTester.interpret_voltage
interpret_voltage(voltage) ==
    IF voltage < OFF_BELOW THEN Interpretation("OFF", FALSE, FALSE)
    ELSE IF voltage < THRESHOLD_LOW THEN Interpretation("LOW", FALSE, FALSE)
    ELSE IF voltage < THRESHOLD_HIGH THEN Interpretation("WEAK", TRUE, FALSE)
    ELSE IF voltage < THRESHOLD_FAULT THEN Interpretation("OK", TRUE, FALSE)
    ELSE Interpretation("HIGH!", TRUE, TRUE)

\* VehicleTester.analyze_readings: the items of the dict analysis, in the
\* iteration order of the readings
VehicleTester_analyze_readings(items) ==
    [k \in 1 .. Len(items) |-> << items[k][1], interpret_voltage(items[k][2]) >>]

\* the voltages tried: 0, 0.5, 2.5, 3.0, 9.5, 10.0, 15.5, 16.0, 17.0 V
VehicleVolts == {0, 1, 5, 6, 19, 20, 31, 32, 34}

\* a snapshot to be interpreted
InitVehicle ==
    /\ Constructed
    /\ \E order \in DiagOrders :
         \E volts \in [1 .. MaxDiagChannels -> VehicleVolts \cup {-1}] :
           readings = dict_items(order, volts)
    /\ faults = << >>
    /\ analysis = << >>
    /\ active_by = << >>
    /\ EmptyHistory

\* analysis = VehicleTester.analyze_readings(readings)
Interpret ==
    /\ last_call = "none"
    /\ analysis' = VehicleTester_analyze_readings(readings)
    /\ last_call' = "VehicleTester.analyze_readings"
    /\ last_arg' = NoArg
    /\ UNCHANGED << current_mode, running, relayVars, buttonVars, displayVars,
                    driver, pc, step, exc, simVars, eventVars, traceVars,
                    readVars, readings, faults, active_by, histVars >>

\* code.py line 232: is_active = voltage > 3.0, the LED update of a poll
read_all_channels_active(voltage) == voltage > 6

\* the default threshold=3.0 of ADCManager.is_channel_active and of
\* NeoPixelManager.update_from_readings
DEFAULT_THRESHOLD == 6

\* ADCManager.is_channel_active: voltage >= threshold
is_channel_active(voltage, threshold) == voltage >= threshold

\* NeoPixelManager.update_from_readings: the LED of a channel of the
\* readings is set active if voltage >= threshold
update_from_readings_active(voltage, threshold) == voltage >= threshold

\* the components that decide whether a channel is active
Components ==
    {"_read_all_channels", "DiagnosticsEngine", "is_channel_active",
     "update_from_readings", "interpret_voltage"}

\* the decision of a component for a voltage
decides_active(component, voltage) ==
    CASE component = "_read_all_channels" ->
             read_all_channels_active(voltage)
      [] component = "DiagnosticsEngine" -> is_active(voltage)
      [] component = "is_channel_active" ->
             is_channel_active(voltage, DEFAULT_THRESHOLD)
      [] component = "update_from_readings" ->
             update_from_readings_active(voltage, DEFAULT_THRESHOLD)
      [] component = "interpret_voltage" ->
             interpret_voltage(voltage).is_active

\* every component is given the voltages of the snapshot
Decide_active ==
    /\ last_call = "none"
    /\ active_by' =
         [component \in Components |->
              [k \in 1 .. Len(readings) |->
                   decides_active(component, readings[k][2])]]
    /\ last_call' = "active"
    /\ last_arg' = NoArg
    /\ UNCHANGED << current_mode, running, relayVars, buttonVars, displayVars,
                    driver, pc, step, exc, simVars, eventVars, traceVars,
                    readVars, readings, faults, analysis, histVars >>

NextVehicle ==
    \/ Interpret
    \/ Decide_active

SpecVehicle == InitVehicle /\ [][NextVehicle]_vars

(* ---------------- DiagnosticHistory ---------------- *)

\* an entry of the history: the snapshot (its items) and the faults found
\* (the timestamp is stored and never read)
HistoryEntry(items, fs) == [readings |-> items, faults |-> fs]

RECURSIVE count_faults(_, _)
\* lines 306-309: one more occurrence for every fault of the list
count_faults(counts, fs) ==
    IF fs = << >> THEN counts
    ELSE count_faults([counts EXCEPT ![Head(fs).name] = @ + 1], Tail(fs))

\* an insertion that evicts the newest entry when the history is full
add_reading_DropNewest(h, capacity, entry) ==
    IF Len(h) + 1 > capacity THEN h ELSE Append(h, entry)

\* add_reading, lines 299-303 and 311-313: the history after the insertion
add_reading(h, capacity, entry) ==
    LET appended == Append(h, entry)
    IN IF Len(appended) > capacity THEN Tail(appended) ELSE appended

\* line 326: if len(self.history) < 10
MIN_INTERMITTENT_SAMPLES == 10

\* a query that answers from the first entry on
detect_intermittent_fault_NoMinimum(h, counts, fault_name) ==
    /\ Len(h) > 0
    /\ 10 * counts[fault_name] > Len(h)
    /\ 10 * counts[fault_name] < 9 * Len(h)

\* detect_intermittent_fault: occurrences / len(history) is compared with
\* 0.1 and 0.9; a quotient k/n equal to 1/10 or 9/10 is the double 0.1 or
\* 0.9 itself, so the comparisons are those of the exact fraction
detect_intermittent_fault(h, counts, fault_name) ==
    IF Len(h) < MIN_INTERMITTENT_SAMPLES THEN FALSE
    ELSE LET occurrences == counts[fault_name]
         IN /\ 10 * occurrences > Len(h)
            /\ 10 * occurrences < 9 * Len(h)

\* line 345: if len(self.history) < 5
MIN_TREND_SAMPLES == 5

\* self.history[-10:]
TREND_WINDOW == 10

\* The two means of get_trend are the doubles sum/len, and their difference
\* is rounded once more.  On the grid of half volts the rounded difference
\* is on the same side of 0.5 as the exact one, except for these cases of
\* an exact difference of 0.5 V, << len, sum, len, sum >> of the two halves
\* (sums in half volts, up to 12 V a reading), where it is below 0.5.
FloatBelowHalf ==
    { << 3, 5, 3, 8 >>, << 3, 8, 3, 5 >>, << 3, 10, 3, 13 >>,
      << 3, 13, 3, 10 >>, << 3, 23, 3, 26 >>, << 3, 26, 3, 23 >>,
      << 3, 46, 3, 49 >>, << 3, 49, 3, 46 >>, << 5, 2, 5, 7 >>,
      << 5, 7, 5, 2 >>, << 5, 9, 5, 14 >>, << 5, 14, 5, 9 >>,
      << 5, 18, 5, 23 >>, << 5, 23, 5, 18 >>, << 5, 36, 5, 41 >>,
      << 5, 41, 5, 36 >>, << 5, 77, 5, 82 >>, << 5, 82, 5, 77 >> }

\* lines 358-365: the class of diff = second_half - first_half, the halves
\* being sum/len
trend_of(len_first, sum_first, len_second, sum_second) ==
    LET scaled == sum_second * len_first - sum_first * len_second
        half_volt == len_first * len_second
    IN IF \/ abs(scaled) < half_volt
          \/ /\ abs(scaled) = half_volt
             /\ << len_first, sum_first, len_second, sum_second >>
                   \in FloatBelowHalf
       THEN "stable"
       ELSE IF scaled > 0 THEN "improving" ELSE "degrading"

\* a trend that needs a full window of 10 entries
get_trend_FullWindow(h, channel) ==
    IF Len(h) < TREND_WINDOW THEN "None" ELSE "stable"

\* get_trend
get_trend(h, channel) ==
    IF Len(h) < MIN_TREND_SAMPLES THEN "None"
    ELSE LET first == IF Len(h) > TREND_WINDOW
                      THEN Len(h) - TREND_WINDOW + 1 ELSE 1
             recent == [k \in 1 .. (Len(h) - first + 1) |->
                          dict_get(h[first + k - 1].readings, channel, 0)]
             half == Len(recent) \div 2
         IN IF Len(recent) < MIN_TREND_SAMPLES THEN "None"
            ELSE trend_of(half, sum(SubSeq(recent, 1, half)),
                          Len(recent) - half,
                          sum(SubSeq(recent, half + 1, Len(recent))))

(* ---------------- a history filled and queried ---------------- *)

\* the entries tried: a snapshot without the brake channel and no fault,
\* brake at 2.5 V with its voltage drop, brake at 4.0 V with two voltage
\* drops (brake and tail)
HistEntries ==
    { HistoryEntry(<< >>, << >>),
      HistoryEntry(<< << "brake", 5 >> >>,
                   << FaultPattern("VOLTAGE_DROP", 85, "brake") >>),
      HistoryEntry(<< << "brake", 8 >>, << "tail", 8 >> >>,
                   << FaultPattern("VOLTAGE_DROP", 85, "brake"),
                      FaultPattern("VOLTAGE_DROP", 85, "tail") >>) }

\* the channels whose trend is asked for
TrendChannels == {"brake", "aux"}

\* history.add_reading(timestamp, readings, faults)
Add_reading ==
    /\ Len(added) < MaxAdds
    /\ \E entry \in HistEntries :
         /\ history' = add_reading(history, max_history, entry)
         /\ fault_counts' = count_faults(fault_counts, entry.faults)
         /\ added' = Append(added, entry)
    /\ answer' = NoAnswer
    /\ last_call' = "add_reading"
    /\ last_arg' = NoArg
    /\ UNCHANGED << current_mode, running, relayVars, buttonVars, displayVars,
                    driver, pc, step, exc, simVars, eventVars, traceVars,
                    readVars, readings, faults, analysis, active_by,
                    max_history >>

\* detect_intermittent_fault(kind) for every kind and get_trend(channel)
\* for every channel, on the history as it is
Query ==
    /\ ~answer.asked
    /\ answer' =
         [asked |-> TRUE,
          intermittent |->
              [kind \in HistKinds |->
                   detect_intermittent_fault(history, fault_counts, kind)],
          trend |-> [channel \in TrendChannels |-> get_trend(history, channel)]]
    /\ last_call' = "query"
    /\ last_arg' = NoArg
    /\ UNCHANGED << current_mode, running, relayVars, buttonVars, displayVars,
                    driver, pc, step, exc, simVars, eventVars, traceVars,
                    readVars, readings, faults, analysis, active_by, history,
                    fault_counts, max_history, added >>

NextHist ==
    \/ Add_reading
    \/ Query

SpecHist == Init /\ [][NextHist]_vars

(* ======================= the claims ======================= *)

\* C1: after an accepted mode-button press has been handled by _cycle_mode,
\* all six relays (pin value and tracked state) are off, whatever they were
\* before.
C1_ModeChangeLeavesRelaysOff ==
    (last_call = "_cycle_mode") => AllOff

\* C2: in every reachable state of the application at most one relay is
\* energized (pin or tracked state).
C2_AtMostOneEnergized ==
    Cardinality({i \in RelayIdx : relays[i] \/ states[i]}) <= 1

\* C2 witness: a later step of the sequence holds its relay energized.
C2_Witness ==
    /\ pc = "seq_hold"
    /\ step >= 2
    /\ Energized = {relay_idx(test_sequence[step].channel)}

\* C3: when the test sequence is left by a failing relay command, every relay
\* is de-energized at the moment control leaves it.
C3_AbortLeavesRelaysOff ==
    (pc = "raised" /\ exc = "RelayError") => AllOff

\* C4: after a relay command has raised inside the test sequence the control
\* loop is still running.
C4_LoopSurvivesRelayFailure ==
    (exc = "RelayError") => (running /\ pc # "ended")

C6_NoRelayAfterShutdown ==
    shutdown_ran => AllOff

\* C7: the mode is the one reached from VehicleTester by as many steps of the
\* cycle VehicleTester -> TrailerTester -> PassThrough -> VehicleTester as
\* mode-button presses have been accepted.
C7_ModeFollowsCycle ==
    current_mode = all_modes[(mode_events % Len(all_modes)) + 1]

\* C8: once the mode button has emitted its Pressed event (for one press, or
\* for two presses within 50 ms), the mode has advanced exactly once.
C8_OnePressedOneAdvance ==
    (mode_events >= 1) => (mode_events = 1 /\ mode_advances = 1)

\* C9 as stated: a hold of the action button that lasted longer than 2000 ms
\* has emitted exactly one LongPressed and no Pressed event, at whatever
\* cadence it was sampled.
C9_LongHoldEmitsLongPressed ==
    (release_kind = "long") => (long_events = 1 /\ short_events = 0)

\* C9, the sampled case: a hold that was sampled at least once more than 2000 ms after
\* the sample that first saw the button pressed has emitted exactly one
\* LongPressed and no Pressed event, during the hold and after its release.
C9_SampledLongHoldEmitsOnce ==
    held_late => (long_events = 1 /\ short_events = 0)

\* C9 witness: the release of a hold that was sampled after the threshold.
C9_Witness ==
    /\ release_kind = "long"
    /\ held_late
    /\ long_events = 1
    /\ long_press_triggered

\* C10: a hold of the action button shorter than 2000 ms emits no event while
\* it lasts, and exactly one Pressed and no LongPressed event at its release.
C10_ShortHoldEmitsPressed ==
    /\ (release_kind = "short") => (short_events = 1 /\ long_events = 0)
    /\ (release_kind = "none") => (short_events = 0)

\* C10 witness: a hold shorter than the threshold has been released.
C10_Witness ==
    /\ release_kind = "short"
    /\ short_events = 1
    /\ hold_time > 0
    /\ hold_time < LONG_PRESS_MS

\* C11: a Pressed event of the action button in vehicle or pass-through mode
\* has performed exactly one detailed channel read and energized no relay.
C11_PressedReadsOnce ==
    (short_events >= 1 /\ current_mode \in {VEHICLE_TESTER, PASS_THROUGH}) =>
        (detail_reads = 1 /\ AllOff)

\* C12: a Pressed event of the action button in trailer mode has run the full
\* test sequence exactly once and performed no channel read.
C12_PressedRunsSequence ==
    (short_events >= 1 /\ current_mode = TRAILER_TESTER) =>
        (seq_runs = 1 /\ detail_reads = 0)

\* the states of a LongPressed event: one sequence, no read before the
\* sequence is over, and afterwards one read in vehicle mode and none in the
\* other modes
LongPressOutcome ==
    (long_events >= 1) =>
        /\ long_events = 1
        /\ (pc = "full_test") => (seq_runs = 0 /\ detail_reads = 0)
        /\ (pc # "full_test") => (seq_runs = 1)
        /\ (~long_press_triggered) => (detail_reads = 0)
        /\ long_press_triggered =>
              /\ Len(seq_log) = Len(test_sequence)
              /\ detail_reads = IF current_mode = VEHICLE_TESTER THEN 1 ELSE 0

\* a detailed read is made only when the sequence has completed its last
\* step and all relays are off
ReadOnlyAfterSequence ==
    (detail_reads' # detail_reads /\ detail_reads' > 0) =>
        /\ pc = "full_test_end"
        /\ Len(seq_log) = Len(test_sequence)
        /\ AllOff

\* C13: a LongPressed event runs the full test sequence in every mode; it is
\* followed by exactly one detailed read if and only if the mode is
\* VehicleTester, and the read is made after the sequence has completed with
\* all relays off.
C13_LongPressRunsSequenceThenReads ==
    []LongPressOutcome /\ [][ReadOnlyAfterSequence]_vars

\* C13 witness: a full test in vehicle mode is over, with its one read.
C13_Witness ==
    /\ long_events = 1
    /\ long_press_triggered
    /\ current_mode = VEHICLE_TESTER
    /\ seq_runs = 1
    /\ detail_reads = 1
    /\ AllOff

\* C14: the steps of the sequence energize tail, left, right, brake, reverse,
\* aux in this order for 2.0, 1.5, 1.5, 2.0, 1.5, 1.0 s (FULL_TEST), each step
\* being energize, hold, de-energize, 0.3 s settle; the relay of a step is
\* off before the next is energized.
C14_SequenceOrderAndDurations ==
    /\ Len(seq_log) <= Len(FULL_TEST)
    /\ \A k \in 1 .. Len(seq_log) :
          /\ seq_log[k][1] = relay_idx(FULL_TEST[k][1])
          /\ IF k < Len(seq_log) \/ pc \in {"seq_on", "full_test_end"}
             THEN seq_log[k][2] = FULL_TEST[k][2] /\ seq_log[k][3] = 300
             ELSE /\ seq_log[k][2] \in {0, FULL_TEST[k][2]}
                  /\ seq_log[k][3] \in {0, 300}
                  /\ (pc = "seq_hold") => (seq_log[k][2] = 0)
                  /\ (pc \in {"seq_off", "seq_settle"}) =>
                        (seq_log[k] = << seq_log[k][1], FULL_TEST[k][2], 0 >>)
    /\ (pc = "seq_on") => (AllOff /\ Len(seq_log) = step - 1)
    /\ (pc \in {"seq_hold", "seq_off"}) =>
          (Len(seq_log) = step /\ Energized \subseteq {seq_log[step][1]})
    /\ (pc = "seq_settle") => AllOff
    /\ (pc = "full_test_end") => (Len(seq_log) = Len(FULL_TEST) /\ AllOff)

\* C14 witness: the sequence has run its six steps.
C14_Witness ==
    /\ pc = "full_test_end"
    /\ Len(seq_log) = 6
    /\ seq_log[6] = << 4, 1000, 300 >>
    /\ AllOff

\* C15: two consecutive periodic reads are at least 250 ms apart, and in
\* trailer mode no periodic read is made.
C15_PeriodicReadsSpaced ==
    /\ read_gap = -1 \/ read_gap >= READING_INTERVAL_MS
    /\ (current_mode = TRAILER_TESTER) => (read_gap = -1)

\* the part of a run between the first energize of a sequence and its end
InSequence ==
    \/ pc \in {"seq_hold", "seq_off", "seq_settle"}
    \/ pc = "seq_on" /\ step > 1

\* a step taken inside the sequence handles no button event, samples no
\* button, does not change the mode and makes no periodic read
NoPollInSequence ==
    InSequence =>
        /\ UNCHANGED << current_mode, mode_button_last, test_button_last,
                        long_press_triggered, mode_events, mode_advances,
                        long_events, short_events, release_kind, read_gap >>
        /\ since_read' >= since_read
        /\ pc' \in {"seq_on", "seq_hold", "seq_off", "seq_settle",
                     "full_test_end", "raised"}

\* C16: the sequence runs to completion before button polling resumes.
C16_SequenceBlocksPolling ==
    [][NoPollInSequence]_vars

\* C16 witness: the sequence is in its third step, after one long press.
C16_Witness ==
    /\ pc = "seq_settle"
    /\ step = 3
    /\ long_events = 1
    /\ seq_runs = 1

\* analyze_readings has returned the list faults for the snapshot readings
Analysed == last_call = "analyze_readings"

\* the number of faults of a kind, with a confidence, in the returned list
CountFaults(name, confidence) ==
    Cardinality({k \in 1 .. Len(faults) :
                   faults[k].name = name /\ faults[k].confidence = confidence})

\* C17: no channel of a snapshot whose voltage is at most 3.0 V gets a
\* per-channel finding (VOLTAGE_DROP or WEAK_SIGNAL).
C17_InactiveNeverFlagged ==
    Analysed =>
        \A k \in 1 .. Len(readings) :
            (readings[k][2] <= 6) =>
                ~ \E j \in 1 .. Len(faults) :
                      /\ faults[j].channel = readings[k][1]
                      /\ faults[j].name \in {"VOLTAGE_DROP", "WEAK_SIGNAL"}

\* C17 witness: a snapshot with a channel at exactly 3.0 V and a flagged
\* channel beside it has been analysed.
C17_Witness ==
    /\ Analysed
    /\ \E k \in 1 .. Len(readings) : readings[k][2] = 6
    /\ \E j \in 1 .. Len(faults) : faults[j].name = "VOLTAGE_DROP"

\* C18: for a snapshot of one channel with voltage v the result is exactly
\* one VOLTAGE_DROP of confidence 85 when 3.0 < v < 9.0, exactly one
\* WEAK_SIGNAL of confidence 70 when 9.0 <= v < 11.0, and empty otherwise.
C18_SingleChannelFinding ==
    (Analysed /\ Len(readings) = 1) =>
        LET v == readings[1][2] IN
          /\ (6 < v /\ v < 18) =>
                /\ Len(faults) = 1
                /\ faults[1].name = "VOLTAGE_DROP"
                /\ faults[1].confidence = 85
          /\ (18 <= v /\ v < 22) =>
                /\ Len(faults) = 1
                /\ faults[1].name = "WEAK_SIGNAL"
                /\ faults[1].confidence = 70
          /\ (v <= 6 \/ v >= 22) => (faults = << >>)

\* C18 witness: a single channel at 9.0 V, reported as a weak signal.
C18_Witness ==
    /\ Analysed
    /\ Len(readings) = 1
    /\ readings[1][2] = 18
    /\ Len(faults) = 1
    /\ faults[1].name = "WEAK_SIGNAL"

\* left and right are both in the snapshot, both above 3.0 V, less than
\* 1.0 V apart
LeftRightSimilar ==
    \E l, r \in 1 .. Len(readings) :
        /\ readings[l][1] = "left"
        /\ readings[r][1] = "right"
        /\ readings[l][2] > 6
        /\ readings[r][2] > 6
        /\ readings[l][2] - readings[r][2] < 2
        /\ readings[r][2] - readings[l][2] < 2

\* C19: the result holds POSSIBLE_CROSS_WIRE, of confidence 60, once if left
\* and right are both above 3.0 V and less than 1.0 V apart, and not at all
\* otherwise (in particular when left or right is missing).
C19_CrossWireIff ==
    Analysed =>
        /\ CountFaults("POSSIBLE_CROSS_WIRE", 60) =
              (IF LeftRightSimilar THEN 1 ELSE 0)
        /\ \A j \in 1 .. Len(faults) :
              (faults[j].name = "POSSIBLE_CROSS_WIRE") =>
                  (faults[j].confidence = 60)

\* C19 witness: left and right 0.5 V apart, reported.
C19_Witness ==
    /\ Analysed
    /\ LeftRightSimilar
    /\ CountFaults("POSSIBLE_CROSS_WIRE", 60) = 1

\* the positions of the channels of the snapshot that are above 3.0 V
ActivePositions == {k \in 1 .. Len(readings) : readings[k][2] > 6}

RECURSIVE TotalOver(_)
\* the total of the voltages at a set of positions of the snapshot
TotalOver(positions) ==
    IF positions = {} THEN 0
    ELSE LET k == CHOOSE x \in positions : TRUE
         IN readings[k][2] + TotalOver(positions \ {k})

EncounterRank(fault) ==
    IF fault.name = "POSSIBLE_CROSS_WIRE" THEN Len(readings) + 1
    ELSE IF fault.name = "GROUND_FAULT" THEN Len(readings) + 2
    ELSE CHOOSE k \in 1 .. Len(readings) : readings[k][1] = fault.channel

\* C21: the returned list is sorted by descending confidence, and faults of
\* equal confidence are in their order of encounter.
C21_SortedStable ==
    Analysed =>
        \A j, k \in 1 .. Len(faults) :
            (j < k) =>
                \/ faults[j].confidence > faults[k].confidence
                \/ /\ faults[j].confidence = faults[k].confidence
                   /\ EncounterRank(faults[j]) < EncounterRank(faults[k])

\* C21 witness: a ground fault, found last, is first in the list, before two
\* voltage drops that are in the order of their channels, and a weak signal.
C21_Witness ==
    /\ Analysed
    /\ Len(faults) >= 4
    /\ faults[1].name = "GROUND_FAULT"
    /\ faults[2].name = "VOLTAGE_DROP"
    /\ faults[3].name = "VOLTAGE_DROP"
    /\ faults[2].channel = "right"
    /\ faults[3].channel = "left"
    /\ faults[Len(faults)].confidence < 85

(* ---------------- C22 .. C26: DiagnosticHistory ---------------- *)

\* the entries of the history in which a finding of the kind is recorded
EntriesWith(kind) ==
    { k \in 1 .. Len(history) :
          \E j \in 1 .. Len(history[k].faults) :
              history[k].faults[j].name = kind }

\* the last min(Len(added), max_history) insertions, in insertion order
MostRecent ==
    LET kept == Min(Len(added), max_history)
    IN SubSeq(added, Len(added) - kept + 1, Len(added))

\* C22: the history never holds more than max_history entries; it holds the
\* most recent min(N, max_history) of the N entries added, in insertion
\* order, the oldest being evicted first.
C22_BoundedHistory ==
    /\ Len(history) <= max_history
    /\ history = MostRecent

\* C22 witness: one entry more than the capacity was added and the evicted
\* first entry differs from the one that is now the oldest.
C22_Witness ==
    /\ Len(added) = max_history + 1
    /\ Len(history) = max_history
    /\ added[1] # added[2]
    /\ history[1] = added[2]

\* C23 as stated: with ten entries or more, detect_intermittent_fault(kind)
\* is true exactly when the fraction of the entries now in the history that
\* record the kind is strictly between 0.1 and 0.9.
C23_FractionOfEntries ==
    (answer.asked /\ Len(history) >= MIN_INTERMITTENT_SAMPLES) =>
        \A kind \in HistKinds :
            answer.intermittent[kind] =
                (/\ 10 * Cardinality(EntriesWith(kind)) > Len(history)
                 /\ 10 * Cardinality(EntriesWith(kind)) < 9 * Len(history))

\* C24: with fewer than ten entries detect_intermittent_fault is false for
\* every kind.
C24_TooFewEntries ==
    (answer.asked /\ Len(history) < MIN_INTERMITTENT_SAMPLES) =>
        \A kind \in HistKinds : ~answer.intermittent[kind]

\* C24 witness: nine entries, four voltage drops counted, the answer asked.
C24_Witness ==
    /\ answer.asked
    /\ Len(history) = MIN_INTERMITTENT_SAMPLES - 1
    /\ fault_counts["VOLTAGE_DROP"] = 4
    /\ ~answer.intermittent["VOLTAGE_DROP"]

\* C25: get_trend is None exactly when the history has fewer than five
\* entries, and otherwise one of stable, improving, degrading.
C25_TrendDefined ==
    answer.asked =>
        \A channel \in TrendChannels :
            /\ (answer.trend[channel] = "None")
                   <=> (Len(history) < MIN_TREND_SAMPLES)
            /\ answer.trend[channel]
                   \in {"None", "stable", "improving", "degrading"}

\* C25 witness: five entries give a trend for the brake channel, and a
\* stable one for a channel no snapshot has.
C25_Witness ==
    /\ answer.asked
    /\ Len(history) = MIN_TREND_SAMPLES
    /\ answer.trend["brake"] = "degrading"
    /\ answer.trend["aux"] = "stable"

\* the readings of a channel in the last min(10, len) entries
Recent(channel) ==
    LET n == Min(TREND_WINDOW, Len(history))
    IN [k \in 1 .. n |->
            dict_get(history[Len(history) - n + k].readings, channel, 0)]

\* the class of the exact difference of the means of the later n - n \div 2
\* and the earlier n \div 2 readings: twice the sum in volts is the sum in
\* half volts, so |diff| < 0.5 is |later * n1 - earlier * n2| < n1 * n2
ExactTrend(channel) ==
    LET recent == Recent(channel)
        n1 == Len(recent) \div 2
        n2 == Len(recent) - n1
        scaled == sum(SubSeq(recent, n1 + 1, Len(recent))) * n1
                      - sum(SubSeq(recent, 1, n1)) * n2
    IN IF abs(scaled) < n1 * n2 THEN "stable"
       ELSE IF scaled > 0 THEN "improving" ELSE "degrading"

\* C26 as stated: with five entries or more the trend is the class of
\* diff = mean(later) - mean(earlier) over the last min(10, len) readings:
\* stable when |diff| < 0.5, improving when diff >= 0.5, degrading when
\* diff <= -0.5.
C26_TrendOfMeans ==
    (answer.asked /\ Len(history) >= MIN_TREND_SAMPLES) =>
        \A channel \in TrendChannels :
            answer.trend[channel] = ExactTrend(channel)

(* ---------------- C27, C28: RelayManager called directly ---------------- *)

\* the relays whose output pin is high
EnergizedNames == {CHANNEL_NAMES[i + 1] : i \in Energized}

\* the elements of a sequence
Range(seq) == {seq[k] : k \in 1 .. Len(seq)}

\* C27: after any sequence of set_channel, set_by_name, toggle_channel,
\* set_pattern, all_on and all_off, for every relay the tracked state
\* equals the output pin and the value last commanded (off at first);
\* get_channel returns it and get_active_channels lists exactly the
\* energized relays, none after all_off.
C27_RelayStateConsistent ==
    /\ \A i \in RelayIdx :
         /\ states[i] = relays[i]
         /\ states[i] = commanded[i]
         /\ get_channel(states, i) = commanded[i]
    /\ Range(get_active_channels(states)) = EnergizedNames
    /\ Len(get_active_channels(states)) = Cardinality(Energized)
    /\ (last_call = "all_off") => get_active_channels(states) = << >>

\* C27 witness: a pattern shorter than the relay list was set, after other
\* calls left relay 5 on: relays 0 and 5 are on and relay 1 is off.
C27_Witness ==
    /\ last_call = "set_pattern"
    /\ get_active_channels(states) = << "brake", "reverse" >>
    /\ commanded[0] /\ ~commanded[1] /\ commanded[5]

\* the last call asked for a relay that does not exist
InvalidRequest ==
    \/ /\ last_call \in {"set_channel", "toggle_channel"}
       /\ last_arg.idx \notin RelayIdx
    \/ /\ last_call = "set_by_name"
       /\ \A k \in 1 .. NumRelays : CHANNEL_NAMES[k] # lower(last_arg.name)

\* C28: set_channel and toggle_channel with an index outside 0..5 and
\* set_by_name with an unknown name leave every relay as it was, relay 0
\* included.
C28_InvalidRejected ==
    [][InvalidRequest' => (relays' = relays /\ states' = states)]_vars

\* C28 witness: an unknown name was given while relay 0 was off and other
\* relays were on.
C28_Witness ==
    /\ last_call = "set_by_name"
    /\ last_arg.name = "relay0"
    /\ ~relays[0]
    /\ relays[3]

(* ---------------- C29: VehicleTester ---------------- *)

Interpreted == last_call = "VehicleTester.analyze_readings"

\* C29: every channel of the readings gets one status of the five, with
\* is_active exactly when its voltage is at least 3.0 V and is_fault exactly
\* when it is at least 16.0 V (a fault is active), whatever the other
\* channels read.
C29_InterpretedPerChannel ==
    Interpreted =>
        /\ Len(analysis) = Len(readings)
        /\ \A k \in 1 .. Len(readings) :
             /\ analysis[k][1] = readings[k][1]
             /\ analysis[k][2].status \in {"OFF", "LOW", "WEAK", "OK", "HIGH!"}
             /\ analysis[k][2].is_active <=> (readings[k][2] >= 6)
             /\ analysis[k][2].is_fault <=> (readings[k][2] >= 32)
             /\ analysis[k][2].is_fault => analysis[k][2].is_active
        /\ \A j, k \in 1 .. Len(readings) :
             (readings[j][2] = readings[k][2])
                 => (analysis[j][2] = analysis[k][2])

\* C29 witness: channels at exactly 3.0 V (active), 2.5 V (not active),
\* exactly 16.0 V (fault) and 15.5 V (no fault) in one snapshot.
C29_Witness ==
    /\ Interpreted
    /\ \E a, b, c, d \in 1 .. Len(readings) :
         /\ readings[a][2] = 6 /\ analysis[a][2].is_active
         /\ readings[b][2] = 5 /\ ~analysis[b][2].is_active
         /\ readings[c][2] = 32 /\ analysis[c][2].is_fault
         /\ readings[d][2] = 31 /\ ~analysis[d][2].is_fault

(* ---------------- C30: the debounce window ---------------- *)

\* C30 as stated: the time the debounce test of the mode button compares
\* with 50 ms is the time since the previous accepted press, so an accepted
\* press opens a window in which the next press is dropped.
C30_WindowFromAcceptedPress ==
    (mode_events >= 1) => (since_mode_press = since_accept)

(* ---------------- C31: one LongPressed per hold ---------------- *)

\* C31: a hold of the action button emits LongPressed at most once, however
\* long it lasts and however many polls see it, exactly once when a poll
\* has seen it held past the threshold, and a hold that emitted it emits
\* no Pressed, at its release or ever; a mode-button press sampled during
\* the hold changes nothing of this.
C31_LongPressedOncePerHold ==
    /\ long_events <= 1
    /\ held_late => (long_events = 1)
    /\ (long_events = 1) => (short_events = 0)

\* C31 witness: LongPressed was emitted, the full test returned, the button
\* was seen held again and then released, and the loop is still polling.
C31_Witness ==
    /\ long_events = 1
    /\ long_press_triggered
    /\ held_late
    /\ release_kind = "long"
    /\ test_button_last
    /\ pc = "polled"
    /\ exc = "none"

(* ---------------- C32: no open-circuit finding ---------------- *)

\* C32: no list returned by analyze_readings holds a finding of the kind
\* OPEN_CIRCUIT.
C32_NoOpenCircuit ==
    Analysed => \A k \in 1 .. Len(faults) : faults[k].name # "OPEN_CIRCUIT"

\* C32 witness: a snapshot with a channel at 0 V, which _is_open_circuit
\* would flag, was analysed and other findings were returned.
C32_Witness ==
    /\ Analysed
    /\ \E k \in 1 .. Len(readings) : is_open_circuit(readings[k][2])
    /\ Len(faults) >= 2

(* ---------------- C33: the mode button is edge-triggered ---------------- *)

\* C33 as stated: every press edge of the mode button that was accepted has
\* advanced the mode exactly once, and the press is then remembered
\* (mode_button_last is pressed), so that the polls that see the button
\* still held find no edge.
C33_OneAdvancePerPressEdge ==
    /\ mode_advances = mode_events
    /\ (exc = "TypeError") => ~mode_button_last

(* ---------------- C34: relays and the polling loop ---------------- *)

\* the firmware loop is between two handlers: at its loop test, about to
\* call check_buttons, or after check_buttons has returned
InPollingLoop == pc \in {"loop", "poll", "polled"}

\* C34: whenever the application is in its polling loop, no test sequence
\* being in progress, all relays are off, in every mode.
C34_RelaysOffWhilePolling ==
    InPollingLoop => AllOff

\* C34 witness: a test sequence has run through its six steps in trailer
\* mode and the loop is polling again.
C34_Witness ==
    /\ InPollingLoop
    /\ current_mode = TRAILER_TESTER
    /\ Len(seq_log) = Len(test_sequence)
    /\ seq_log[Len(seq_log)][3] = SETTLE_MS
    /\ AllOff

(* ---------------- C35: the full test terminates ---------------- *)

\* C35 as stated: every full test that is started ends, unless a relay
\* command fails, with its six steps done and all relays off, control being
\* back in _trigger_full_test.
C35_FullTestTerminates ==
    (pc = "full_test") ~>
        \/ exc = "RelayError"
        \/ /\ pc = "full_test_end"
           /\ Len(seq_log) = Len(test_sequence)
           /\ AllOff

(* ---------------- C36: a short press and the current mode ---------------- *)

\* C36 as stated: when the release of a short press has been handled, the
\* action of the mode that is current at the release has been taken: a
\* detailed read in vehicle mode, the test sequence in trailer mode.
C36_DispatchedByCurrentMode ==
    (release_kind = "short" /\ short_events = 1) =>
        /\ exc = "none"
        /\ (current_mode = VEHICLE_TESTER) => (detail_reads = 1)
        /\ (current_mode = TRAILER_TESTER) => (seq_runs = 1)

(* ---------------- C37: the action button and the mode ---------------- *)

\* C37: no step of the running application changes current_mode unless it
\* is the handling of an accepted mode-button press: the handlers of the
\* action button, the test sequence and the channel reads leave the mode as
\* it is.  (Before the loop is started the mode is the one assigned to the
\* constructed object.)
C37_OnlyModePressChangesMode ==
    [][(current_mode' # current_mode) =>
           (mode_events' # mode_events \/ pc = "constructed")]_vars

\* C37 witness: in trailer mode a long press has run the test sequence and
\* returned to the loop, then a short press was released, and the mode is
\* still the trailer mode.
C37_Witness ==
    /\ current_mode = TRAILER_TESTER
    /\ seq_log # << >>
    /\ release_kind = "short"
    /\ short_events = 1
    /\ mode_events = 0

(* ---------------- C38: what comes with a ground fault ---------------- *)

\* the names of the findings returned
FaultNames == {faults[k].name : k \in 1 .. Len(faults)}

\* C38: a result that holds GROUND_FAULT holds it in first place, and holds
\* a VOLTAGE_DROP or a WEAK_SIGNAL of some channel as well.
C38_GroundFaultLeadsAndIsBacked ==
    (Analysed /\ "GROUND_FAULT" \in FaultNames) =>
        /\ faults[1].name = "GROUND_FAULT"
        /\ FaultNames \cap {"VOLTAGE_DROP", "WEAK_SIGNAL"} # {}

\* C38 witness: three active channels of which two read the full 11.0 V and
\* one is weak: a ground fault, then the one weak signal.
C38_Witness ==
    /\ Analysed
    /\ Len(faults) = 2
    /\ faults[1].name = "GROUND_FAULT"
    /\ faults[2].name = "WEAK_SIGNAL"
    /\ Cardinality({k \in 1 .. Len(readings) : readings[k][2] >= 22}) = 2

(* ---------------- C39: the occurrence counts ---------------- *)

\* C39 as stated: the count kept for a fault kind is at most the number of
\* entries now in the history, and it is 0 for a kind that no retained
\* entry records.
C39_CountWithinHistory ==
    \A kind \in HistKinds :
        /\ fault_counts[kind] <= Len(history)
        /\ (EntriesWith(kind) = {}) => (fault_counts[kind] = 0)

(* ---------------- C40: one predicate for "active" ---------------- *)

\* C40 as stated: for every voltage each component decides that the channel
\* is active exactly when the voltage is strictly above 3.0 V.
C40_SameActivePredicate ==
    (last_call = "active") =>
        \A component \in Components :
            \A k \in 1 .. Len(readings) :
                active_by[component][k] = (readings[k][2] > 6)

====
